---- MODULE Spec2Model ----
(***************************************************************************)
(* The background notification dispatcher of the task-workflow service:    *)
(* the in-memory email queue and its drain loop (services/emailService.js),*)
(* the Email ledger (models/Email.js) and the two operator paths that      *)
(* work on the ledger: the batch run "simulate-email-processing" and the   *)
(* retry of a failed email (controllers/emailController.js).               *)
(*                                                                         *)
(* One action is one run-to-completion segment of the Node.js event loop:  *)
(* from the resumption of a handler to its next await.  A save() is        *)
(* applied to the store in the segment that issues it or resumes from it;  *)
(* what a handler read before an await stays in its own copy (a mongoose   *)
(* document), and a save writes only the paths that document has marked    *)
(* modified.                                                               *)
(***************************************************************************)
EXTENDS Integers, Sequences, FiniteSets, TLC

\* ---------------------------------------------------------------- bounds
MaxCalls == 1        \* producer calls (send*Email) over a run
MaxQueue == 2        \* jobs waiting in emailQueue when a call may add one
MaxRuns == 3         \* batch runs that find pending emails, over a run
MaxRetries == 2      \* retry requests that reach email.retry(), over a run
MaxBatchSize == 2    \* largest batchSize an operator asks for
MaxOps == 4          \* activities started over a run, see Ops
MaxSaveFailures == 1 \* save() calls the store rejects, over a run
MaxLimit == 2        \* largest limit an operator asks the failed emails with

\* ------------------------------------------------------ program constants
JobMaxAttempts == 3          \* addToQueue: maxAttempts: 3
DefaultMaxAttempts == 3      \* emailSchema.maxAttempts default

Undefined == "undefined"     \* an unset path of a document
ADate == "date"              \* a path holding a Date

SimulatedFailure == "Simulated processing failure"
SaveError == "save failed"   \* error.message of a rejected save()

VARIABLES
  emailQueue,    \* emailService.js: const emailQueue = []
  isProcessing,  \* emailService.js: let isProcessing = false
  loops,         \* the processQueue invocations past "isProcessing = true"
  saves,         \* Email documents of send*Email calls awaiting save()
  ledger,        \* the emails collection, in insertion order
  updated,       \* the ids of the collection by updatedAt, oldest first
  runs,          \* simulateEmailProcessing handlers, in progress or done
  retries,       \* retryFailedEmail handlers, awaiting email.retry() or done
  clock,         \* number of producer calls so far (orders Date.now())
  saveFailures,  \* number of save() calls the store has rejected
  response       \* what the segment just run handed back to its caller

vars == <<emailQueue, isProcessing, loops, saves, ledger, updated, runs, retries, clock,
          saveFailures, response>>

NoResponse == [op |-> "none", result |-> "none"]

\* The activities started so far: a producer call starts two, a job and
\* the save of its record; a batch run and a retry are one each.
Ops == clock + clock + Len(runs) + Len(retries)

\* ------------------------------------------------------------- templates
\* emailTemplates: the rendered subject and content are a function of the
\* template and its arguments; the template's name stands for them.
WelcomeData(user) ==
  [to |-> user, subject |-> "welcome", content |-> "welcomeContent",
   type |-> "welcome", priority |-> "normal"]

TaskAssignmentData(user, taskPriority) ==
  [to |-> user, subject |-> "taskAssignment", content |-> "taskAssignmentContent",
   type |-> "task_assignment",
   priority |-> IF taskPriority = "urgent" THEN "high" ELSE "normal"]

TaskUpdateData(user) ==
  [to |-> user, subject |-> "taskUpdate", content |-> "taskUpdateContent",
   type |-> "task_update", priority |-> "low"]

TaskReminderData(user) ==
  [to |-> user, subject |-> "taskReminder", content |-> "taskReminderContent",
   type |-> "reminder", priority |-> "normal"]

TaskCompletionData(user) ==
  [to |-> user, subject |-> "taskCompleted", content |-> "taskCompletedContent",
   type |-> "notification", priority |-> "low"]

\* The producer calls the model enumerates.
Requests ==
  { [fn |-> "sendWelcomeEmail", user |-> "u1", taskPriority |-> "none"],
    [fn |-> "sendTaskAssignmentEmail", user |-> "u2", taskPriority |-> "urgent"],
    [fn |-> "sendTaskAssignmentEmail", user |-> "u1", taskPriority |-> "medium"],
    [fn |-> "sendTaskUpdateEmail", user |-> "u1", taskPriority |-> "medium"],
    [fn |-> "sendTaskReminderEmail", user |-> "u2", taskPriority |-> "medium"],
    [fn |-> "sendTaskCompletionEmail", user |-> "u1", taskPriority |-> "medium"] }

EmailData(req) ==
  CASE req.fn = "sendWelcomeEmail" -> WelcomeData(req.user)
    [] req.fn = "sendTaskAssignmentEmail" -> TaskAssignmentData(req.user, req.taskPriority)
    [] req.fn = "sendTaskUpdateEmail" -> TaskUpdateData(req.user)
    [] req.fn = "sendTaskReminderEmail" -> TaskReminderData(req.user)
    [] req.fn = "sendTaskCompletionEmail" -> TaskCompletionData(req.user)

\* ------------------------------------------------------- the Email model
\* new Email(emailData): the schema defaults. scheduledAt (default Date.now)
\* is the time of the call, the number of the producer call.
NewEmail(emailData, now) ==
  [to |-> emailData.to, subject |-> emailData.subject,
   content |-> emailData.content, type |-> emailData.type,
   priority |-> emailData.priority, status |-> "pending",
   attempts |-> 0, maxAttempts |-> DefaultMaxAttempts, scheduledAt |-> now,
   processedAt |-> Undefined, sentAt |-> Undefined, errorMessage |-> Undefined]

\* A mongoose document: the id of the record, the values of its paths and
\* the paths marked modified since it was read or last saved.
Doc(id) == [id |-> id, v |-> ledger[id], dirty |-> {}]

\* doc[path] = val: a Date is always a new value; anything else marks the
\* path modified only when the value differs from the document's.
Assign(doc, path, val) ==
  IF (path \in {"processedAt", "sentAt"} /\ val = ADate) \/ doc.v[path] # val
    THEN [doc EXCEPT !.v[path] = val, !.dirty = @ \cup {path}]
    ELSE doc

markAsProcessing(doc) ==
  Assign(Assign(Assign(doc, "status", "processing"),
                "processedAt", ADate),
         "attempts", doc.v.attempts + 1)

markAsSent(doc) ==
  Assign(Assign(doc, "status", "sent"), "sentAt", ADate)

\* A faulty markAsFailed that does not record the message.
markAsFailedNoMessage(doc, errorMessage) ==
  Assign(Assign(doc, "status", "failed"), "processedAt", ADate)

markAsFailed(doc, errorMessage) ==
  Assign(Assign(Assign(doc, "status", "failed"),
                "errorMessage", errorMessage),
         "processedAt", ADate)

\* A faulty canRetry that does not look at the status.
canRetryAnyStatus(email) == email.attempts < email.maxAttempts

canRetry(email) ==
  email.status = "failed" /\ email.attempts < email.maxAttempts

\* email.retry(): the document to save, or the thrown error.
retry(doc) ==
  IF doc.v.attempts < doc.v.maxAttempts
    THEN [thrown |-> FALSE,
          doc |-> Assign(Assign(Assign(Assign(doc, "status", "pending"),
                                       "processedAt", Undefined),
                                "sentAt", Undefined),
                         "errorMessage", Undefined)]
    ELSE [thrown |-> TRUE, doc |-> doc]

\* A successful save(): the modified paths of the document overwrite those
\* of the stored record, whatever the record holds by now.
Saved(doc) ==
  [ledger EXCEPT ![doc.id] =
     [p \in DOMAIN ledger[doc.id] |->
        IF p \in doc.dirty THEN doc.v[p] ELSE ledger[doc.id][p]]]

\* timestamps: true. A save() that writes sets updatedAt to the time of the
\* save, which makes the document the latest updated of the collection.
Touched(id) == Append(SelectSeq(updated, LAMBDA x : x # id), id)

Clean(doc) == [doc EXCEPT !.dirty = {}]

\* ---------------------------------------------------- the transient queue
LiveIds == {emailQueue[k].id : k \in 1..Len(emailQueue)}
             \cup {loops[k].job.id : k \in {j \in 1..Len(loops) : loops[j].pc = "sending"}}

\* id: Date.now() + Math.random(), different from every job alive.
NewId == CHOOSE n \in 1..(Cardinality(LiveIds) + 1) : n \notin LiveIds

\* The job addToQueue pushes. ref is not a field of the program's job: it
\* names the producer call the notification comes from (the scheduledAt of
\* its ledger record), so that properties can relate a job to its record.
NewJob(emailData, ref) ==
  [id |-> NewId, ref |-> ref, to |-> emailData.to, subject |-> emailData.subject,
   content |-> emailData.content, type |-> emailData.type, priority |-> emailData.priority,
   attempts |-> 0, maxAttempts |-> JobMaxAttempts]

\* A faulty entry test that forgets the flag.
StartsUnguarded(q) == Len(q) # 0

\* processQueue's entry test.
Starts(q) == ~(isProcessing \/ Len(q) = 0)

\* A faulty start of the loop that reads the head and leaves it in the
\* queue.
processQueueKeepsHead(q) ==
  IF Starts(q)
    THEN /\ isProcessing' = TRUE
         /\ emailQueue' = q
         /\ loops' = Append(loops, [pc |-> "sending", job |-> Head(q)])
    ELSE /\ emailQueue' = q
         /\ UNCHANGED <<isProcessing, loops>>

\* A call of processQueue with the queue holding q, up to its first await:
\* the loop takes the head and waits for its delivery.
processQueue(q) ==
  IF Starts(q)
    THEN /\ isProcessing' = TRUE
         /\ emailQueue' = Tail(q)
         /\ loops' = Append(loops, [pc |-> "sending", job |-> Head(q)])
    ELSE /\ emailQueue' = q
         /\ UNCHANGED <<isProcessing, loops>>

\* A faulty addToQueue that pushes the job and never starts the loop.
addToQueueNoStart(emailData, ref) ==
  /\ emailQueue' = Append(emailQueue, NewJob(emailData, ref))
  /\ UNCHANGED <<isProcessing, loops>>

addToQueue(emailData, ref) ==
  LET q == Append(emailQueue, NewJob(emailData, ref))
  IN IF ~isProcessing
       THEN processQueue(q)
       ELSE /\ emailQueue' = q
            /\ UNCHANGED <<isProcessing, loops>>

\* A faulty catch block that puts the failed job back at the head.
RequeuedAtHead(q, job) ==
  IF job.attempts < job.maxAttempts
    THEN <<[job EXCEPT !.attempts = @ + 1]>> \o q
    ELSE q

\* A faulty catch block that puts the failed job back as it is, whatever
\* its attempts.
RequeuedAlways(q, job) == Append(q, job)

\* The catch block of processQueue: the queue after a failed delivery.
Requeued(q, job) ==
  IF job.attempts < job.maxAttempts
    THEN Append(q, [job EXCEPT !.attempts = @ + 1])
    ELSE q

RemoveAt(s, i) == SubSeq(s, 1, i - 1) \o SubSeq(s, i + 1, Len(s))

\* The while test of loop i with the queue holding q: take the next head,
\* or leave the loop and clear the flag.
Continue(i, q) ==
  IF Len(q) > 0
    THEN /\ emailQueue' = Tail(q)
         /\ loops' = [loops EXCEPT ![i] = [pc |-> "sending", job |-> Head(q)]]
         /\ UNCHANGED isProcessing
    ELSE /\ emailQueue' = q
         /\ loops' = RemoveAt(loops, i)
         /\ isProcessing' = FALSE

Rest == <<saves, ledger, updated, runs, retries, clock, saveFailures>>

\* A faulty end of a delivery that marks the record of the job sent.
DeliverOkMarksSent(i) ==
  /\ loops[i].pc = "sending"
  /\ loops' = [loops EXCEPT ![i] = [pc |-> "delay"]]
  /\ ledger' = [id \in 1..Len(ledger) |->
                  IF ledger[id].scheduledAt = loops[i].job.ref
                    THEN [ledger[id] EXCEPT !.status = "sent", !.sentAt = ADate]
                    ELSE ledger[id]]
  /\ response' = NoResponse
  /\ UNCHANGED <<emailQueue, isProcessing, saves, updated, runs, retries, clock,
                 saveFailures>>

\* simulateEmailProcessing resolves: processEmailJob returns and the loop
\* awaits the delay between emails.
DeliverOk(i) ==
  /\ loops[i].pc = "sending"
  /\ loops' = [loops EXCEPT ![i] = [pc |-> "delay"]]
  /\ response' = NoResponse
  /\ UNCHANGED <<emailQueue, isProcessing>>
  /\ UNCHANGED Rest

\* simulateEmailProcessing rejects: the catch block, then the while test.
DeliverFail(i) ==
  /\ loops[i].pc = "sending"
  /\ Continue(i, Requeued(emailQueue, loops[i].job))
  /\ response' = NoResponse
  /\ UNCHANGED Rest

\* The delay between emails elapses: the while test.
DelayDone(i) ==
  /\ loops[i].pc = "delay"
  /\ Continue(i, emailQueue)
  /\ response' = NoResponse
  /\ UNCHANGED Rest

\* A direct call of the exported processQueue.
ProcessQueue ==
  /\ processQueue(emailQueue)
  /\ response' = NoResponse
  /\ UNCHANGED Rest

getQueueStatus ==
  [queueLength |-> Len(emailQueue), isProcessing |-> isProcessing,
   pendingEmails |-> Len(emailQueue),
   processingStatus |-> IF isProcessing THEN "active" ELSE "idle"]

\* A faulty clearQueue that also stops the loop.
ClearQueueStopsLoop ==
  /\ emailQueue' = <<>>
  /\ isProcessing' = FALSE
  /\ loops' = <<>>
  /\ response' = [op |-> "clearQueue", result |-> Len(emailQueue)]
  /\ UNCHANGED <<saves, ledger, updated, runs, retries, clock, saveFailures>>

\* A faulty clearQueue that reads the length after emptying the queue.
ClearQueueCountsAfter ==
  /\ emailQueue' = <<>>
  /\ response' = [op |-> "clearQueue", result |-> 0]
  /\ UNCHANGED <<isProcessing, loops, saves, ledger, updated, runs, retries, clock,
                 saveFailures>>

ClearQueue ==
  /\ emailQueue' = <<>>
  /\ response' = [op |-> "clearQueue", result |-> Len(emailQueue)]
  /\ UNCHANGED <<isProcessing, loops, saves, ledger, updated, runs, retries, clock, saveFailures>>

\* ------------------------------------------------------------- producers
\* send*Email up to its await: addToQueue, then new Email(emailData) and
\* the save() it waits for.
SendEmail(req) ==
  /\ clock < MaxCalls
  /\ Ops + 1 < MaxOps
  /\ Len(emailQueue) < MaxQueue
  /\ clock' = clock + 1
  /\ addToQueue(EmailData(req), clock + 1)
  /\ saves' = saves \cup {NewEmail(EmailData(req), clock + 1)}
  /\ response' = NoResponse
  /\ UNCHANGED <<ledger, updated, runs, retries, saveFailures>>

\* n of the save() calls that settle in a segment are rejected by the store.
Rejected(n) ==
  /\ saveFailures + n <= MaxSaveFailures
  /\ saveFailures' = saveFailures + n

\* A faulty catch block that throws the error on.
SaveRethrown == "thrown"

\* What the catch block around email.save() hands to the caller of
\* send*Email: the error is logged and the call returns.
SaveCaught == "returned"

\* The try/catch of the controllers around send*Email (createTask,
\* updateTask, assignTask, register): a throw is logged and the handler
\* goes on to its success response.
Controller(result) ==
  CASE result = "returned" -> "success"
    [] result = "thrown" -> "success"

\* The save() of a send*Email settles and the call returns to the
\* controller, whose own try/catch then carries on with its response.
SaveDone(email, ok) ==
  /\ email \in saves
  /\ Rejected(IF ok THEN 0 ELSE 1)
  /\ saves' = saves \ {email}
  /\ ledger' = IF ok THEN Append(ledger, email) ELSE ledger
  /\ updated' = IF ok THEN Append(updated, Len(ledger) + 1) ELSE updated
  /\ response' = [op |-> "send",
                  result |-> IF ok THEN "returned" ELSE SaveCaught,
                  logged |-> IF ok THEN "queued" ELSE SaveError,
                  business |-> Controller(IF ok THEN "returned" ELSE SaveCaught)]
  /\ UNCHANGED <<emailQueue, isProcessing, loops, runs, retries, clock>>

\* ------------------------------------------------------- the batch runs
\* The characters of a priority, as the store compares strings.
Chars(priority) ==
  CASE priority = "low" -> <<108, 111, 119>>
    [] priority = "normal" -> <<110, 111, 114, 109, 97, 108>>
    [] priority = "high" -> <<104, 105, 103, 104>>
    [] priority = "urgent" -> <<117, 114, 103, 101, 110, 116>>

RECURSIVE StrLess(_, _)
StrLess(a, b) ==
  IF Len(b) = 0 THEN FALSE
  ELSE IF Len(a) = 0 THEN TRUE
  ELSE IF Head(a) # Head(b) THEN Head(a) < Head(b)
  ELSE StrLess(Tail(a), Tail(b))

\* sort({ priority: -1, scheduledAt: 1 }): x comes before y.
Before(x, y) ==
  \/ StrLess(Chars(ledger[y].priority), Chars(ledger[x].priority))
  \/ /\ ledger[x].priority = ledger[y].priority
     /\ \/ ledger[x].scheduledAt < ledger[y].scheduledAt
        \/ ledger[x].scheduledAt = ledger[y].scheduledAt /\ x < y

RECURSIVE Sorted(_)
Sorted(ids) ==
  IF ids = {} THEN <<>>
  ELSE LET first == CHOOSE x \in ids : \A y \in ids \ {x} : Before(x, y)
       IN <<first>> \o Sorted(ids \ {first})

\* A faulty limit that lets every record found through.
TakeAll(s, n) == s

Take(s, n) == SubSeq(s, 1, IF Len(s) < n THEN Len(s) ELSE n)

\* Email.getPendingEmails(limit): the ids of the records found, in order.
getPendingEmails(limit) ==
  Take(Sorted({id \in 1..Len(ledger) :
                 /\ ledger[id].status = "pending"
                 /\ ledger[id].scheduledAt <= clock}),
       limit)

\* The handler after getPendingEmails: its documents, and the first
\* markAsProcessing awaiting its save().
SimulateStart(batchSize) ==
  /\ Len(runs) < MaxRuns
  /\ Ops < MaxOps
  /\ LET found == getPendingEmails(batchSize)
     IN IF Len(found) = 0
          THEN /\ response' = [op |-> "simulate", result |-> 0]
               /\ UNCHANGED runs
          ELSE /\ runs' = Append(runs, [pc |-> "mark",
                                        pendingEmails |-> [k \in 1..Len(found) |-> Doc(found[k])],
                                        results |-> <<>>,
                                        processedCount |-> 0])
               /\ response' = NoResponse
  /\ UNCHANGED <<emailQueue, isProcessing, loops, saves, ledger, updated, retries, clock, saveFailures>>

Result(doc, status) == [emailId |-> doc.id, status |-> status]

\* The end of one iteration of the for loop of run i: the next email's
\* markAsProcessing is issued, or the response is sent.
NextEmail(i, result, counted) ==
  LET run == runs[i]
      count == run.processedCount + (IF counted THEN 1 ELSE 0)
  IN IF Len(run.pendingEmails) > 1
       THEN /\ runs' = [runs EXCEPT ![i] = [pc |-> "mark",
                                            pendingEmails |-> Tail(run.pendingEmails),
                                            results |-> Append(run.results, result),
                                            processedCount |-> count]]
            /\ response' = NoResponse
       ELSE /\ runs' = [runs EXCEPT ![i] = [pc |-> "done"]]
            /\ response' = [op |-> "simulate", result |-> count]

\* The catch block of the for loop: markAsFailed(error.message) on the
\* document as the failed step left it; a second failure is only logged.
Caught(i, doc, ok) ==
  LET failed == markAsFailed(doc, SaveError)
  IN /\ ledger' = IF ok THEN Saved(failed) ELSE ledger
     /\ updated' = IF ok THEN Touched(doc.id) ELSE updated
     /\ NextEmail(i, Result(doc, "failed"), FALSE)

\* The save() of markAsProcessing settles.
SimulateMark(i, ok, ok2) ==
  /\ runs[i].pc = "mark"
  /\ ok => ok2
  /\ Rejected((IF ok THEN 0 ELSE 1) + (IF ok2 THEN 0 ELSE 1))
  /\ LET marked == markAsProcessing(Head(runs[i].pendingEmails))
     IN IF ok
          THEN /\ ledger' = Saved(marked)
               /\ updated' = Touched(marked.id)
               /\ runs' = [runs EXCEPT ![i].pc = "delay",
                                       ![i].pendingEmails[1] = Clean(marked)]
               /\ response' = NoResponse
          ELSE Caught(i, marked, ok2)
  /\ UNCHANGED <<emailQueue, isProcessing, loops, saves, retries, clock>>

\* The delay elapses, the delivery is drawn and the save() of markAsSent
\* or markAsFailed settles.
SimulateResolve(i, delivered, ok, ok2) ==
  /\ runs[i].pc = "delay"
  /\ ok => ok2
  /\ Rejected((IF ok THEN 0 ELSE 1) + (IF ok2 THEN 0 ELSE 1))
  /\ LET email == Head(runs[i].pendingEmails)
         resolved == IF delivered THEN markAsSent(email)
                                  ELSE markAsFailed(email, SimulatedFailure)
     IN IF ok
          THEN /\ ledger' = Saved(resolved)
               /\ updated' = Touched(resolved.id)
               /\ NextEmail(i, Result(email, IF delivered THEN "sent" ELSE "failed"), TRUE)
          ELSE Caught(i, resolved, ok2)
  /\ UNCHANGED <<emailQueue, isProcessing, loops, saves, retries, clock>>

\* ------------------------------------------------------------- the retry
\* retryFailedEmail up to the await of email.retry().
RetryStart(emailId) ==
  /\ Len(retries) < MaxRetries
  /\ Ops < MaxOps
  /\ IF emailId > Len(ledger)
       THEN /\ response' = [op |-> "retry", result |-> "Email not found"]
            /\ UNCHANGED retries
       ELSE IF ~canRetry(ledger[emailId])
         THEN /\ response' = [op |-> "retry", result |-> "Email cannot be retried"]
              /\ UNCHANGED retries
         ELSE IF retry(Doc(emailId)).thrown
           THEN /\ response' = [op |-> "retry", result |-> "Maximum retry attempts exceeded"]
                /\ UNCHANGED retries
           ELSE /\ retries' = Append(retries, [pc |-> "saving", email |-> retry(Doc(emailId)).doc])
                /\ response' = NoResponse
  /\ UNCHANGED <<emailQueue, isProcessing, loops, saves, ledger, updated, runs, clock, saveFailures>>

\* A faulty emailData that does not copy the priority of the email.
RetryDataDefaultPriority(email) ==
  [to |-> email.to, subject |-> email.subject,
   content |-> email.content, type |-> email.type,
   priority |-> "normal"]

\* The emailData retryFailedEmail builds from the document.
RetryData(email) ==
  [to |-> email.to, subject |-> email.subject,
   content |-> email.content, type |-> email.type,
   priority |-> email.priority]

\* The save() of email.retry() settles: the job is added and the email
\* returned, or the error is thrown on to the controller.
RetrySave(i, ok) ==
  /\ retries[i].pc = "saving"
  /\ Rejected(IF ok THEN 0 ELSE 1)
  /\ IF ok
       THEN /\ Len(emailQueue) < MaxQueue
            /\ ledger' = Saved(retries[i].email)
            /\ updated' = Touched(retries[i].email.id)
            /\ addToQueue(RetryData(retries[i].email.v), retries[i].email.v.scheduledAt)
            /\ response' = [op |-> "retry", result |-> "retried"]
       ELSE /\ response' = [op |-> "retry", result |-> SaveError]
            /\ UNCHANGED <<emailQueue, isProcessing, loops, ledger, updated>>
  /\ retries' = [retries EXCEPT ![i] = [pc |-> "done"]]
  /\ UNCHANGED <<saves, runs, clock>>

\* ------------------------------------------------- the failed emails
\* A faulty filter that leaves the attempts out.
FailedFilterAnyAttempts(email) == email.status = "failed"

\* The filter of Email.getFailedEmails: status 'failed' and
\* $expr: { $lt: ['$attempts', '$maxAttempts'] }.
FailedFilter(email) ==
  email.status = "failed" /\ email.attempts < email.maxAttempts

\* Email.getFailedEmails(limit): find, sort({ updatedAt: 1 }), limit.
getFailedEmails(limit) ==
  Take(SelectSeq(updated, LAMBDA id : FailedFilter(ledger[id])), limit)

\* The handler of GET /failed: the query is answered and the response
\* sent.
GetFailedEmails(limit) ==
  /\ response' = [op |-> "getFailedEmails", result |-> getFailedEmails(limit)]
  /\ UNCHANGED <<emailQueue, isProcessing, loops, saves, ledger, updated, runs,
                 retries, clock, saveFailures>>

\* What an earlier life of the process can have left in the collection,
\* which outlives the queue: nothing, a welcome email that two batch runs
\* failed to deliver, with a retry in between, or a task assignment email
\* that no batch run has selected yet.
StoredLedgers ==
  { <<>>,
    << [NewEmail(WelcomeData("u1"), 0) EXCEPT
          !.status = "failed", !.attempts = 2, !.processedAt = ADate,
          !.errorMessage = SimulatedFailure] >>,
    << NewEmail(TaskAssignmentData("u2", "urgent"), 0) >> }

Init ==
  /\ emailQueue = <<>>
  /\ isProcessing = FALSE
  /\ loops = <<>>
  /\ saves = {}
  /\ ledger \in StoredLedgers
  /\ updated = [k \in 1..Len(ledger) |-> k]
  /\ runs = <<>>
  /\ retries = <<>>
  /\ clock = 0
  /\ saveFailures = 0
  /\ response = NoResponse

Next ==
  \/ \E req \in Requests : SendEmail(req)
  \/ \E email \in saves, ok \in BOOLEAN : SaveDone(email, ok)
  \/ \E i \in 1..Len(loops) : DeliverOk(i)
  \/ \E i \in 1..Len(loops) : DeliverFail(i)
  \/ \E i \in 1..Len(loops) : DelayDone(i)
  \/ ProcessQueue
  \/ ClearQueue
  \/ \E batchSize \in 1..MaxBatchSize : SimulateStart(batchSize)
  \/ \E i \in 1..Len(runs), ok \in BOOLEAN, ok2 \in BOOLEAN : SimulateMark(i, ok, ok2)
  \/ \E i \in 1..Len(runs), delivered \in BOOLEAN, ok \in BOOLEAN, ok2 \in BOOLEAN :
        SimulateResolve(i, delivered, ok, ok2)
  \/ \E emailId \in 1..(MaxCalls + 1) : RetryStart(emailId)
  \/ \E i \in 1..Len(retries), ok \in BOOLEAN : RetrySave(i, ok)
  \/ \E limit \in 1..MaxLimit : GetFailedEmails(limit)

Spec == Init /\ [][Next]_vars

\* The timers of the loop fire: the setTimeout of simulateEmailProcessing
\* settles the delivery one way or the other, and the setTimeout between
\* emails resolves.
Delivery == \E i \in 1..Len(loops) : DeliverOk(i) \/ DeliverFail(i)
Delay == \E i \in 1..Len(loops) : DelayDone(i)

LiveSpec == Init /\ [][Next]_vars /\ WF_vars(Delivery) /\ WF_vars(Delay)

\* ==================================================================
\* Properties
\* ==================================================================

\* The jobs waiting in the queue or in delivery.
InDelivery == {i \in 1..Len(loops) : loops[i].pc = "sending"}
Outstanding == Len(emailQueue) + Cardinality(InDelivery)

\* C1: at most one invocation of processQueue is between
\* "isProcessing = true" and "isProcessing = false" at any instant.
C1_SingleDrainLoop == Len(loops) <= 1

\* A loop is running and a job has been added behind it.
C1_Witness == Len(loops) = 1 /\ isProcessing /\ Len(emailQueue) >= 1

\* C2: attempts <= maxAttempts for every ledger record, in every state.
C2_AttemptsWithinMax ==
  \A id \in 1..Len(ledger) : ledger[id].attempts <= ledger[id].maxAttempts

AllowedChanges ==
  { <<"pending", "processing">>, <<"processing", "sent">>,
    <<"processing", "failed">>, <<"processing", "pending">>,
    <<"failed", "pending">> }

\* Retry i writes record id in this step.
RetryWrites(i, id) ==
  /\ retries[i].pc = "saving"
  /\ retries'[i].pc = "done"
  /\ retries[i].email.id = id

\* C3: every status change of a record is pending->processing,
\* processing->sent, processing->failed, processing->pending or
\* failed->pending, the last only by a retry; a sent record stays sent.
C3_StatusChanges ==
  [][\A id \in 1..Len(ledger) :
       ledger'[id].status # ledger[id].status =>
         /\ <<ledger[id].status, ledger'[id].status>> \in AllowedChanges
         /\ ledger[id].status = "failed" =>
              \E i \in 1..Len(retries) : RetryWrites(i, id)]_vars

\* Loop i drops its job in this step: the delivery fails with the
\* attempts of the job used up.
Drops(i) ==
  /\ loops[i].pc = "sending"
  /\ loops[i].job.attempts >= loops[i].job.maxAttempts
  /\ DeliverFail(i)

\* C4: once the loop drops a job whose attempts are exhausted, the job is
\* no longer in the queue and its ledger record is failed.
C4_DroppedJobIsFailed ==
  [][\A i \in 1..Len(loops) :
       Drops(i) =>
         /\ \A k \in 1..Len(emailQueue') : emailQueue'[k].id # loops[i].job.id
         /\ \A id \in 1..Len(ledger') :
              ledger'[id].scheduledAt = loops[i].job.ref =>
                ledger'[id].status = "failed"]_vars

\* The ledger gains exactly one record, pending, and keeps the others.
OneMorePending ==
  /\ Len(ledger') = Len(ledger) + 1
  /\ SubSeq(ledger', 1, Len(ledger)) = ledger
  /\ ledger'[Len(ledger')].status = "pending"

\* C5 as stated: every producer call raises the length of the queue by
\* exactly one, and its save adds exactly one pending record.
C5_QueueLengthPlusOne ==
  [][/\ \A req \in Requests :
          SendEmail(req) => Len(emailQueue') = Len(emailQueue) + 1
     /\ \A email \in saves : SaveDone(email, TRUE) => OneMorePending]_vars

\* C5 amended: a producer call adds exactly one job, which waits in the
\* queue when the loop is running and is taken at once by the loop the
\* call starts when it is idle (the length of the queue is then as before);
\* and its save adds exactly one pending record.
C5_OneMoreJob ==
  [][/\ \A req \in Requests :
          SendEmail(req) =>
            /\ Outstanding' = Outstanding + 1
            /\ isProcessing =>
                 /\ Len(emailQueue') = Len(emailQueue) + 1
                 /\ loops' = loops
            /\ ~isProcessing =>
                 /\ Len(emailQueue') = Len(emailQueue)
                 /\ Len(loops') = Len(loops) + 1
                 /\ isProcessing'
     /\ \A email \in saves : SaveDone(email, TRUE) => OneMorePending]_vars

\* A call into the idle dispatcher: its job is in delivery, the queue is
\* empty and its record is about to be saved.
C5_Witness ==
  /\ saves # {}
  /\ emailQueue = <<>>
  /\ \E i \in InDelivery : \E email \in saves : loops[i].job.ref = email.scheduledAt

\* C6: when the save of a producer call is rejected, the call returns
\* without an error and the controller answers with success; no record is
\* created, and the job stays where it was, waiting or in delivery.
C6_SaveFailureSwallowed ==
  [][\A email \in saves :
       SaveDone(email, FALSE) =>
         /\ response'.result = "returned"
         /\ response'.business = "success"
         /\ ledger' = ledger
         /\ emailQueue' = emailQueue
         /\ loops' = loops
         /\ isProcessing' = isProcessing]_vars

\* A producer call has just returned from a rejected save.
C6_Witness ==
  /\ response.op = "send"
  /\ response.logged = SaveError
  /\ saveFailures > 0

\* C7: with the timers of the loop firing, and the producers stopping (as
\* they do within the bounds), the queue ends up empty and the loop idle,
\* whatever the deliveries do.
C7_QueueDrains ==
  <>[](emailQueue = <<>> /\ ~isProcessing /\ loops = <<>>)

\* Jobs were added and the loop has gone back to idle with the queue empty.
C7_Witness ==
  /\ emailQueue = <<>>
  /\ ~isProcessing
  /\ loops = <<>>
  /\ \E i \in 1..Len(retries) : retries[i].pc = "done"
  /\ clock > 0

NotEligible(email) ==
  email.status # "failed" \/ email.attempts >= email.maxAttempts

\* C8: a retry of a record that is not failed, or whose attempts have
\* reached maxAttempts, ends with the error "Email cannot be retried" and
\* changes neither the ledger nor the queue.
C8_RetryRejected ==
  [][\A emailId \in 1..Len(ledger) :
       (NotEligible(ledger[emailId]) /\ RetryStart(emailId)) =>
         /\ response' = [op |-> "retry", result |-> "Email cannot be retried"]
         /\ UNCHANGED <<ledger, updated, emailQueue, isProcessing, loops, retries, runs, saves>>]_vars

\* A retry has just been refused, of a failed record whose attempts have
\* reached maxAttempts.
C8_Witness ==
  /\ response = [op |-> "retry", result |-> "Email cannot be retried"]
  /\ Len(ledger) = 1
  /\ ledger[1].status = "failed"
  /\ ledger[1].attempts >= ledger[1].maxAttempts

\* The job a call of addToQueue has added in this step: the last of the
\* queue, or the one the loop it started has taken.
Added ==
  IF isProcessing THEN emailQueue'[Len(emailQueue')]
  ELSE loops'[Len(loops')].job

Rank(priority) ==
  CASE priority = "low" -> 1
    [] priority = "normal" -> 2
    [] priority = "high" -> 3
    [] priority = "urgent" -> 4

\* C10: a batch run takes the pending records by tier descending and by
\* scheduledAt ascending within a tier, and leaves out no record of a
\* higher tier than one it takes.
C10_PriorityOrder ==
  [][\A n \in 1..MaxBatchSize :
       (SimulateStart(n) /\ Len(runs') = Len(runs) + 1) =>
         LET sel == runs'[Len(runs')].pendingEmails
             taken == {sel[k].id : k \in 1..Len(sel)}
             left == {id \in 1..Len(ledger) :
                        ledger[id].status = "pending" /\ id \notin taken}
         IN /\ \A k, l \in 1..Len(sel) :
                 k < l =>
                   \/ Rank(sel[k].v.priority) > Rank(sel[l].v.priority)
                   \/ /\ sel[k].v.priority = sel[l].v.priority
                      /\ sel[k].v.scheduledAt <= sel[l].v.scheduledAt
            /\ \A id \in left, k \in 1..Len(sel) :
                 Rank(ledger[id].priority) <= Rank(sel[k].v.priority)]_vars

\* The ids of the documents a batch run still holds.
Held(run) ==
  IF run.pc = "done" THEN {}
  ELSE {run.pendingEmails[k].id : k \in 1..Len(run.pendingEmails)}

\* C11: a batch run with batch size n selects at most n records, each
\* pending with scheduledAt <= now at the selection, and the run writes no
\* record outside its selection.
C11_BatchWithinSelection ==
  [][/\ \A n \in 1..MaxBatchSize :
          (SimulateStart(n) /\ Len(runs') = Len(runs) + 1) =>
            LET sel == runs'[Len(runs')].pendingEmails
            IN /\ Len(sel) <= n
               /\ \A k \in 1..Len(sel) :
                    /\ ledger[sel[k].id].status = "pending"
                    /\ ledger[sel[k].id].scheduledAt <= clock
                    /\ sel[k].v = ledger[sel[k].id]
     /\ \A i \in 1..Len(runs) :
          (Len(runs') = Len(runs) /\ runs'[i] # runs[i]) =>
            /\ Held(runs'[i]) \subseteq Held(runs[i])
            /\ Len(ledger') = Len(ledger)
            /\ \A id \in 1..Len(ledger) :
                 ledger'[id] # ledger[id] => id = Head(runs[i].pendingEmails).id]_vars

\* A run asked for one record has selected one and left a pending record
\* out.
C11_Witness ==
  \E i \in 1..Len(runs) :
    /\ runs[i].pc = "mark"
    /\ Len(runs[i].pendingEmails) = 1
    /\ runs[i].results = <<>>
    /\ Cardinality({id \in 1..Len(ledger) : ledger[id].status = "pending"}) = 2

\* The step in which batch run i sends its response.
Returns(i) == runs[i].pc # "done" /\ runs'[i].pc = "done"

\* The ids of the records batch run i has gone through when it returns.
Processed(i) ==
  {runs[i].results[k].emailId : k \in 1..Len(runs[i].results)}
    \cup {Head(runs[i].pendingEmails).id}

\* C12: when a batch run returns and no save was rejected, every record it
\* selected is sent or failed; the save of markAsProcessing raised the
\* stored attempts by exactly one; no step of the run adds a job to the
\* queue.
C12_BatchResolvesAll ==
  [][\A i \in 1..Len(runs) :
       (Len(runs') = Len(runs) /\ runs'[i] # runs[i] /\ saveFailures' = 0) =>
         /\ Returns(i) =>
              \A id \in Processed(i) : ledger'[id].status \in {"sent", "failed"}
         /\ runs[i].pc = "mark" =>
              LET id == Head(runs[i].pendingEmails).id
              IN ledger'[id].attempts = ledger[id].attempts + 1
         /\ emailQueue' = emailQueue
         /\ loops' = loops]_vars

\* The ids of a result, and the place of an id in the order of updatedAt.
Ids(result) == {result[k] : k \in 1..Len(result)}
Place(id) == CHOOSE k \in 1..Len(updated) : updated[k] = id

\* A result lists each record once, the one updated longest ago first.
OldestFirst(result) ==
  \A k, l \in 1..Len(result) : k < l => Place(result[k]) < Place(result[l])

\* The records that are failed with their attempts used up.
Exhausted ==
  {id \in 1..Len(ledger) :
     ledger[id].status = "failed" /\ ledger[id].attempts = ledger[id].maxAttempts}

\* C13: the failed emails asked for with limit k, when exactly k records
\* are failed with attempts = maxAttempts, are exactly those k records,
\* the one updated longest ago first.
C13_ExhaustedSurfaced ==
  [][\A limit \in 1..MaxLimit :
       (GetFailedEmails(limit) /\ Cardinality(Exhausted) = limit) =>
         /\ Ids(response'.result) = Exhausted
         /\ OldestFirst(response'.result)]_vars

\* C14: the failed emails asked for with a limit are at most limit
\* records, each failed with attempts < maxAttempts, the one updated longest
\* ago first; when fewer than limit are returned, every record left out is
\* not failed or has attempts >= maxAttempts; the records returned are
\* records a retry would accept, and all of them when they fit the limit.
C14_FailedListing ==
  [][\A limit \in 1..MaxLimit :
       GetFailedEmails(limit) =>
         LET result == response'.result
             retryable == {id \in 1..Len(ledger) : canRetry(ledger[id])}
         IN /\ Len(result) <= limit
            /\ \A id \in Ids(result) :
                 ledger[id].status = "failed"
                   /\ ledger[id].attempts < ledger[id].maxAttempts
            /\ OldestFirst(result)
            /\ Len(result) < limit =>
                 \A id \in (1..Len(ledger)) \ Ids(result) :
                   ledger[id].status # "failed"
                     \/ ledger[id].attempts >= ledger[id].maxAttempts
            /\ Ids(result) \subseteq retryable
            /\ Cardinality(retryable) <= limit => Ids(result) = retryable
            /\ \A id \in retryable \ Ids(result) :
                 \A other \in Ids(result) : Place(other) < Place(id)]_vars

\* Two failed emails have been listed, the one inserted later first.
C14_Witness ==
  /\ response.op = "getFailedEmails"
  /\ response.result = <<2, 1>>

\* C15: after clearQueue the queue status reports queueLength 0, whether
\* the loop is idle or running, and the clearedCount returned is the
\* queueLength the status reported just before.
C15_ClearQueueEmpties ==
  [][ClearQueue =>
       /\ (getQueueStatus.queueLength)' = 0
       /\ (getQueueStatus.pendingEmails)' = 0
       /\ response'.result = getQueueStatus.queueLength]_vars

\* The queue has been cleared of a waiting job while the loop is running.
C15_Witness ==
  /\ response.op = "clearQueue"
  /\ response.result >= 1
  /\ isProcessing
  /\ emailQueue = <<>>

\* C16: every record with status sent has sentAt set and no errorMessage.
C16_SentIsClean ==
  \A id \in 1..Len(ledger) :
    ledger[id].status = "sent" =>
      ledger[id].sentAt # Undefined /\ ledger[id].errorMessage = Undefined

\* C17: every record with status failed has an errorMessage.
C17_FailedHasMessage ==
  \A id \in 1..Len(ledger) :
    ledger[id].status = "failed" =>
      ledger[id].errorMessage \notin {Undefined, ""}

\* A record is failed again after a retry, with two batch runs and a
\* retry behind it.
C17_Witness ==
  /\ \E id \in 1..Len(ledger) :
       ledger[id].status = "failed" /\ ledger[id].errorMessage = SimulatedFailure
  /\ \E i \in 1..Len(retries) : retries[i].pc = "done"
  /\ Len(runs) = 2
  /\ \A i \in 1..Len(runs) : runs[i].pc = "done"

\* The category requested by each producer.
Category(fn) ==
  CASE fn = "sendWelcomeEmail" -> "welcome"
    [] fn = "sendTaskAssignmentEmail" -> "task_assignment"
    [] fn = "sendTaskUpdateEmail" -> "task_update"
    [] fn = "sendTaskReminderEmail" -> "task_reminder"
    [] fn = "sendTaskCompletionEmail" -> "task_completion"

\* C18: the job and the record a producer makes carry the category
\* requested, one of welcome, task_assignment, task_update, task_reminder
\* and task_completion.
C18_CategoryAsRequested ==
  [][\A req \in Requests :
       SendEmail(req) =>
         /\ Added.type = Category(req.fn)
         /\ \A email \in saves' \ saves : email.type = Category(req.fn)]_vars

\* C19: the loop delivers a job at most three times; a job in delivery
\* with attempts a is in its delivery number a + 1.
C19_AtMostThreeDeliveries ==
  \A i \in InDelivery : loops[i].job.attempts + 1 <= JobMaxAttempts

\* The ids of the records of the notification a job belongs to.
RecordsOf(job, emails) ==
  {id \in 1..Len(emails) : emails[id].scheduledAt = job.ref}

\* Loop i takes a job off the queue in this step.
Takes(i) ==
  /\ i \in 1..Len(loops')
  /\ loops'[i].pc = "sending"
  /\ i \in 1..Len(loops) => loops[i] # loops'[i]

\* C20: when the loop takes a job off the queue, the record of the job
\* becomes processing with attempts one higher; when the delivery
\* succeeds, the record becomes sent with sentAt set.
C20_LoopUpdatesRecord ==
  [][/\ \A i \in 1..(Len(loops) + 1) :
          Takes(i) =>
            \A id \in RecordsOf(loops'[i].job, ledger) :
              /\ ledger'[id].status = "processing"
              /\ ledger'[id].attempts = ledger[id].attempts + 1
     /\ \A i \in 1..Len(loops) :
          (loops[i].pc = "sending" /\ DeliverOk(i)) =>
            \A id \in RecordsOf(loops[i].job, ledger) :
              /\ ledger'[id].status = "sent"
              /\ ledger'[id].sentAt # Undefined]_vars

\* C21: the loop takes the jobs in the order they were added, whatever
\* their priority: the job taken is the head of the queue; a job is added
\* at the tail, behind every job waiting; a failed job with attempts left
\* goes to the tail, and the job taken next is the one that was at the head
\* when it failed.
C21_Fifo ==
  [][/\ \A i \in 1..(Len(loops) + 1) :
          (Takes(i) /\ emailQueue # <<>>) =>
            /\ loops'[i].job = Head(emailQueue)
            /\ \A k \in 1..(Len(emailQueue) - 1) : emailQueue'[k] = emailQueue[k + 1]
     /\ (\A i \in 1..(Len(loops) + 1) : ~Takes(i)) =>
          \/ emailQueue' = <<>>
          \/ \A k \in 1..Len(emailQueue) : emailQueue'[k] = emailQueue[k]
     /\ \A i \in 1..Len(loops) :
          (/\ loops[i].pc = "sending"
           /\ DeliverFail(i)
           /\ loops[i].job.attempts < loops[i].job.maxAttempts
           /\ emailQueue # <<>>) =>
            /\ emailQueue'[Len(emailQueue')] =
                 [loops[i].job EXCEPT !.attempts = @ + 1]
            /\ Len(emailQueue') = Len(emailQueue)]_vars

\* A failed job of normal priority has gone back to the tail, behind a
\* waiting job of high priority that has not been delivered yet.
C21_Witness ==
  /\ Len(emailQueue) = 2
  /\ emailQueue[2].attempts >= 1
  /\ emailQueue[2].priority = "normal"
  /\ emailQueue[1].attempts = 0
  /\ emailQueue[1].priority = "high"

\* C22: wherever another operation can run, a queue that is not empty has
\* the loop running, and the loop goes from running to idle only with the
\* queue empty.
C22_NoLostWakeup ==
  [][/\ emailQueue' # <<>> => (isProcessing' /\ Len(loops') = 1)
     /\ (isProcessing /\ ~isProcessing') => (emailQueue' = <<>> /\ loops' = <<>>)]_vars

\* A job was added while the loop waits in its delay between two emails.
C22_Witness ==
  /\ emailQueue # <<>>
  /\ isProcessing
  /\ \E i \in 1..Len(loops) : loops[i].pc = "delay"

\* The records a batch run has marked processing and not resolved yet
\* while the loop has the job of the same notification in delivery.
InBothHands ==
  {id \in 1..Len(ledger) :
     /\ ledger[id].status = "processing"
     /\ \E i \in InDelivery : loops[i].job.ref = ledger[id].scheduledAt}

\* C23: a record in the hands of both consumers has been marked
\* processing by both, the loop when it took the job and the batch run
\* when it selected the record, so that its attempts count the two.
C23_BothMarkProcessing ==
  \A id \in InBothHands : ledger[id].attempts >= 2

\* The loop delivers the job of a notification whose record a batch run
\* has marked processing.
C23_DoubleHandling == InBothHands # {}

\* C24: clearQueue removes the waiting jobs only: no record changes, the
\* loop keeps running with the job it has in delivery, and that job, when
\* its delivery fails with attempts left, goes back to the queue and is
\* taken again.
C24_ClearQueueFrame ==
  [][/\ ClearQueue =>
          /\ ledger' = ledger
          /\ updated' = updated
          /\ loops' = loops
          /\ isProcessing' = isProcessing
          /\ saves' = saves
     /\ \A i \in 1..Len(loops) :
          (/\ loops[i].pc = "sending"
           /\ DeliverFail(i)
           /\ loops[i].job.attempts < loops[i].job.maxAttempts
           /\ emailQueue = <<>>) =>
            /\ isProcessing'
            /\ loops'[i] = [pc |-> "sending",
                            job |-> [loops[i].job EXCEPT !.attempts = @ + 1]]]_vars

\* The queue has been cleared of a job whose record is pending, and the
\* loop still has another job in delivery.
C24_Witness ==
  /\ response.op = "clearQueue"
  /\ response.result >= 1
  /\ InDelivery # {}
  /\ \E id \in 1..Len(ledger) :
       /\ ledger[id].status = "pending"
       /\ \A i \in InDelivery : loops[i].job.ref # ledger[id].scheduledAt

\* C25: the loop takes the next job only out of its delay between two
\* emails, whether the job before was delivered, put back or dropped.
C25_DelayBeforeNext ==
  [][\A i \in 1..Len(loops) : Takes(i) => loops[i].pc = "delay"]_vars

\* Batch run i marks the record at the head of what it holds processing.
Marks(i) ==
  /\ runs[i].pc = "mark"
  /\ Len(runs') = Len(runs)
  /\ runs'[i].pc = "delay"

\* C26: a batch run marks a record processing only while the record is
\* pending: not when another run has marked it processing, nor when
\* another run has resolved it to sent or failed.
C26_OneRunPerEpisode ==
  [][\A i \in 1..Len(runs) :
       Marks(i) => ledger[Head(runs[i].pendingEmails).id].status = "pending"]_vars

\* C27: the deliveries the loop has started for the job of a notification
\* and the attempts the batch runs have counted on its record never add up
\* to more than the maxAttempts of the record.
C27_TotalDeliveries ==
  \A i \in InDelivery :
    \A id \in RecordsOf(loops[i].job, ledger) :
      loops[i].job.attempts + 1 + ledger[id].attempts <= ledger[id].maxAttempts

\* C28: attempts of a record never decreases.
C28_AttemptsMonotone ==
  [][\A id \in 1..Len(ledger) : ledger'[id].attempts >= ledger[id].attempts]_vars

\* Retry i adds its job in this step.
Resubmits(i) ==
  /\ retries[i].pc = "saving"
  /\ Len(retries') = Len(retries)
  /\ retries'[i].pc = "done"
  /\ Outstanding' = Outstanding + 1

\* C29: a retry adds a job only for a record that is failed at that
\* moment, so that of two retries that both read the record failed only
\* one adds a job; and a retry of a record that is pending ends with an
\* error.
C29_OneRetryPerFailure ==
  [][/\ \A i \in 1..Len(retries) :
          Resubmits(i) => ledger[retries[i].email.id].status = "failed"
     /\ \A emailId \in 1..Len(ledger) :
          (ledger[emailId].status = "pending" /\ RetryStart(emailId)) =>
            response'.result = "Email cannot be retried"]_vars

\* A step of the drain loop.
LoopStep ==
  \/ \E i \in 1..Len(loops) : DeliverOk(i) \/ DeliverFail(i) \/ DelayDone(i)
  \/ ProcessQueue

\* C30: no step of the drain loop changes the ledger, and a record that
\* is pending with attempts 0 is changed by nothing but a batch run that
\* has selected it.
C30_LoopLeavesLedger ==
  [][/\ LoopStep => (ledger' = ledger /\ updated' = updated)
     /\ \A id \in 1..Len(ledger) :
          (/\ ledger[id].status = "pending"
           /\ ledger[id].attempts = 0
           /\ ledger'[id] # ledger[id]) =>
            \E i \in 1..Len(runs) :
              /\ runs[i].pc = "mark"
              /\ runs'[i] # runs[i]
              /\ Head(runs[i].pendingEmails).id = id]_vars

\* The loop has delivered the only job there has been, that of a producer
\* call, and waits in its delay; the record of the call is still pending
\* with attempts 0.
C30_Witness ==
  /\ \E i \in 1..Len(loops) : loops[i].pc = "delay"
  /\ retries = <<>>
  /\ clock = 1
  /\ \E id \in 1..Len(ledger) :
       /\ ledger[id].scheduledAt = 1
       /\ ledger[id].status = "pending"
       /\ ledger[id].attempts = 0

====
